---- MODULE Spec2Model ----
(***************************************************************************)
(* State-machine model of PumpFunMonitor (src/Pumpfunbot.py): the run of   *)
(* main(), the monitoring loop, the feed client, the dedup check on        *)
(* seen_tokens, the formatter's failure path and the notifier.             *)
(***************************************************************************)
EXTENDS Integers, Sequences, FiniteSets, TLC

\* Longest feed batch the model enumerates.
MaxBatch == 3

\* Token identifiers (mint strings) the feed may return.
Ids == {"A", "B"}

(***************************************************************************)
(* JSON data as the code sees it.  A token of a batch is one JSON value:   *)
(* a dict (with or without a 'mint' key, whose value is a string or a      *)
(* list) or a scalar, which has no .get.                                   *)
(***************************************************************************)
\* A string of n characters, each character named by its position.
Chars(n) == [i \in 1..n |-> i]

\* The value under 'description': a string, JSON null, or no such key.
DStr(n) == [type |-> "str", chars |-> Chars(n)]

DNull == [type |-> "null", chars |-> <<>>]

DAbsent == [type |-> "absent", chars |-> <<>>]

\* A dict token with a string mint.  The values under 'price_usd' and
\* 'usd_market_cap' are named by their JSON literal: "0", "1.5" and
\* "1234567.5" are numbers, "null" is null, "abc" is a string, "str:" is the
\* empty string, "str:0" and "str:1.5" are the strings "0" and "1.5", "list:1"
\* is a list of one element, and "absent" is a missing key.
Rec(m, p, c, d) ==
    [kind |-> "dict", hasMint |-> TRUE, mintKind |-> "str", mint |-> m,
     price |-> p, cap |-> c, desc |-> d]

Tok(m, p) == Rec(m, p, "absent", DAbsent)

NoMintTok ==
    [kind |-> "dict", hasMint |-> FALSE, mintKind |-> "str", mint |-> "-",
     price |-> "1.5", cap |-> "absent", desc |-> DAbsent]

ListMintTok ==
    [kind |-> "dict", hasMint |-> TRUE, mintKind |-> "list", mint |-> "[x]",
     price |-> "1.5", cap |-> "absent", desc |-> DAbsent]

ScalarTok ==
    [kind |-> "scalar", hasMint |-> FALSE, mintKind |-> "str", mint |-> "-",
     price |-> "absent", cap |-> "absent", desc |-> DAbsent]

Tokens ==
    {Tok("A", "1.5"), Tok("A", "abc"), Tok("B", "absent"), Tok("", "1.5"),
     NoMintTok, ListMintTok, ScalarTok}

RECURSIVE SeqsUpTo(_, _)
SeqsUpTo(S, n) ==
    IF n = 0 THEN {<<>>}
    ELSE LET shorter == SeqsUpTo(S, n - 1)
         IN  shorter \cup {Append(s, x) : s \in {t \in shorter : Len(t) = n - 1}, x \in S}

Batches == SeqsUpTo(Tokens, MaxBatch)

\* A JSON value held in the variable `tokens`: a list of tokens, a string
\* (iterating yields its characters), a number, null, or an object
\* (iterating yields its keys).
JList(items) == [type |-> "list", items |-> items, num |-> 0]

\* n items that are not dicts (the characters of a string, the keys of an object).
Scalars(n) == IF n = 0 THEN <<>> ELSE IF n = 1 THEN <<ScalarTok>> ELSE <<ScalarTok, ScalarTok>>

JStr(n) == [type |-> "str", items |-> Scalars(n), num |-> 0]

JNum(v) == [type |-> "num", items |-> <<>>, num |-> v]

JNull == [type |-> "null", items |-> <<>>, num |-> 0]

JObj(n) == [type |-> "object", items |-> Scalars(n), num |-> 0]

\* Python truthiness of a JSON value.
Truthy(v) ==
    CASE v.type = "list" -> Len(v.items) > 0
      [] v.type = "str" -> Len(v.items) > 0
      [] v.type = "object" -> Len(v.items) > 0
      [] v.type = "num" -> v.num # 0
      [] OTHER -> FALSE

\* Whether `for token in v` can iterate v.
Iterable(v) == v.type \in {"list", "str", "object"}

\* Values a feed object may hold under 'coins' that are not lists.
NonListValues == {JStr(0), JStr(2), JNum(0), JNum(5), JNull, JObj(0), JObj(1)}

\* Bodies of an HTTP 200 answer.
Body(v, hasCoins, coins) == [val |-> v, hasCoins |-> hasCoins, coins |-> coins]

Bodies ==
    {Body(JList(b), FALSE, JNull) : b \in Batches}
    \cup {Body(JObj(1), TRUE, JList(b)) : b \in Batches}
    \cup {Body(JObj(1), TRUE, v) : v \in NonListValues}
    \cup {Body(JObj(0), FALSE, JNull), Body(JObj(1), FALSE, JNull)}
    \cup {Body(v, FALSE, JNull) : v \in {JStr(2), JNum(5), JNum(0), JNull}}

\* What one GET on the feed can come back with.
Responses ==
    {[outcome |-> "200", body |-> b] : b \in Bodies}
    \cup {[outcome |-> o, body |-> Body(JNull, FALSE, JNull)] :
            o \in {"non200", "neterr", "timeout", "badjson"}}

NoBatch == [type |-> "none", items |-> <<>>, num |-> 0]

NoResponse == [outcome |-> "none", body |-> Body(JNull, FALSE, JNull)]

SendOutcomes == {"200", "non200", "exception"}

VARIABLES
    pc,           \* position of the run
    session,      \* self.session: "none", "open", "closed"
    seen_tokens,  \* self.seen_tokens
    tokens,       \* the batch of the current iteration (forgotten at the pause: it
                  \* is not read again before the next fetch overwrites it)
    idx,          \* position of the for loop in tokens
    message,      \* the formatted message awaiting dispatch (NoMessage once handed over)
    iterEnd,      \* the iteration: "none" before the first, "running", then
                  \* "completed" (steady pause) or "failed" (backoff pause)
    exitKind,     \* how the run ended
    examined,     \* history: non-empty identifiers the dedup check has examined
    fetched,      \* history: the feed's answer, from the fetch to the test of `tokens`
    passes,       \* history: times each identifier passed the dedup check
    attempts,     \* history: notifications attempted per identifier
    iterSent,     \* history: identifiers notified in the current iteration
    seenAtStart,  \* history: seen_tokens when the current iteration began
    sameAsPrev,   \* history: this batch equals the previous, completed one
                  \* (the histories of an iteration are forgotten after its pause)
    repeat,       \* prophecy: the batch just completed, when the feed's next answer
                  \* is going to be that batch again; NoBatch otherwise
    lastSend,     \* history: outcome of the notification whose pacing pause is pending
    lastFetch,    \* history: outcome of the fetch of the current iteration
    startups,     \* history: startup notifications attempted
    acquires,     \* history: HTTP clients constructed
    releases,     \* history: HTTP clients closed
    strayReq      \* history: a request was issued while the client was not open

vars ==
    <<pc, session, seen_tokens, tokens, idx, message, iterEnd, exitKind, examined,
      fetched, passes, attempts, iterSent, seenAtStart, sameAsPrev, repeat, lastSend, lastFetch,
      startups, acquires, releases, strayReq>>

histVars == <<examined, fetched, passes, attempts, iterSent, seenAtStart, sameAsPrev, repeat, lastSend, lastFetch, startups>>

NoMessage == [kind |-> "none", mint |-> "-", price |-> "-", cap |-> "-", desc |-> <<>>]

Init ==
    /\ pc = "init"
    /\ session = "none"
    /\ seen_tokens = {}
    /\ tokens = JList(<<>>)
    /\ idx = 1
    /\ message = NoMessage
    /\ iterEnd = "none"
    /\ exitKind = "running"
    /\ examined = {}
    /\ fetched = NoResponse
    /\ passes = [i \in Ids |-> 0]
    /\ attempts = [i \in Ids |-> 0]
    /\ iterSent = <<>>
    /\ seenAtStart = {}
    /\ sameAsPrev = FALSE
    /\ repeat = NoBatch
    /\ lastSend = "none"
    /\ lastFetch = "none"
    /\ startups = 0
    /\ acquires = 0
    /\ releases = 0
    /\ strayReq = FALSE

(***************************************************************************)
(* The pure parts of the code.                                             *)
(***************************************************************************)

\* Variant of GetNewTokens that decodes the body outside the try block: a
\* malformed body raises out of the method.
GetNewTokensJsonUnguarded(resp) ==
    IF resp.outcome \in {"neterr", "timeout", "non200"}
    THEN [raised |-> FALSE, value |-> JList(<<>>)]
    ELSE IF resp.outcome = "badjson"
    THEN [raised |-> TRUE, value |-> JList(<<>>)]
    ELSE IF resp.body.val.type = "list"
    THEN [raised |-> FALSE, value |-> resp.body.val]
    ELSE IF resp.body.val.type = "object"
    THEN [raised |-> FALSE,
          value |-> IF resp.body.hasCoins THEN resp.body.coins ELSE JList(<<>>)]
    ELSE [raised |-> FALSE, value |-> JList(<<>>)]

\* get_new_tokens: the value returned for one answer of the feed, and whether
\* an exception leaves the method.
GetNewTokens(resp) ==
    IF resp.outcome \in {"neterr", "timeout"}
    THEN [raised |-> FALSE, value |-> JList(<<>>)]
    ELSE IF resp.outcome = "non200"
    THEN [raised |-> FALSE, value |-> JList(<<>>)]
    ELSE IF resp.outcome = "badjson"
    THEN [raised |-> FALSE, value |-> JList(<<>>)]
    ELSE IF resp.body.val.type = "list"
    THEN [raised |-> FALSE, value |-> resp.body.val]
    ELSE IF resp.body.val.type = "object"
    THEN [raised |-> FALSE,
          value |-> IF resp.body.hasCoins THEN resp.body.coins ELSE JList(<<>>)]
    ELSE [raised |-> FALSE, value |-> JList(<<>>)]

\* token.get('mint', default)
TokenGet(token, default) == IF token.hasMint THEN token.mint ELSE default

\* token has a .get method
HasGet(token) == token.kind = "dict"

\* `token_mint` is truthy
MintTruthy(token) == TokenGet(token, "") # ""

\* `token_mint not in self.seen_tokens` raises TypeError for an unhashable mint
MintHashable(token) == token.mintKind = "str"

\* Variant of IsNew that leaves out the membership test.
IsNewNoMembership(mint, seen) == mint # ""

\* Variant of IsNew that leaves out the truthiness test.
IsNewNoTruthy(mint, seen) == mint \notin seen

\* the dedup test: `token_mint and token_mint not in self.seen_tokens`
IsNew(mint, seen) == mint # "" /\ mint \notin seen

\* Variant of SeenAdd that forgets to record the identifier.
SeenAddNothing(seen, mint) == seen

\* Variant of SeenAdd that replaces the set instead of growing it.
SeenAddReplace(seen, mint) == {mint}

\* self.seen_tokens.add(token_mint)
SeenAdd(seen, mint) == seen \cup {mint}

\* Variant of OnIterationError in which the exception leaves the loop.
OnIterationErrorEscapes == "exiting"

\* The handler of the loop's try: every Exception of the iteration body ends
\* in the backoff pause.
OnIterationError == "sleep60"

\* Length of description[:200] and the threshold of the marker.
DescLimit == 200

\* Length of the default 'No description available'.
DefaultDescLen == 24

\* The marker '...': three characters, none of them a position.
Ellipsis == <<0, 0, 0>>

\* token.get('description', 'No description available')
DescGet(token) == IF token.desc.type = "absent" THEN DStr(DefaultDescLen) ELSE token.desc

\* token.get('price_usd', 0)
PriceGet(token) == IF token.price = "absent" THEN "0" ELSE token.price

\* token.get('usd_market_cap', 0)
CapGet(token) == IF token.cap = "absent" THEN "0" ELSE token.cap

\* Python truthiness of a price or market cap value.
PyTruthy(v) == v \notin {"0", "null", "str:"}

\* float(price) succeeds
FloatOk(price) == price \in {"0", "1.5", "str:0", "str:1.5"}

\* float(price), where it succeeds
FloatOf(price) ==
    CASE price \in {"0", "str:0"} -> "0.0"
      [] price \in {"1.5", "str:1.5"} -> "1.5"
      [] OTHER -> "-"

\* f"${x:.8f}"
Fmt8(x) ==
    CASE x = "0.0" -> "$0.00000000"
      [] x = "1.5" -> "$1.50000000"
      [] OTHER -> "-"

\* f"${market_cap:,.2f}"
FmtGrouped2(cap) ==
    CASE cap = "1.5" -> "$1.50"
      [] cap = "1234567.5" -> "$1,234,567.50"
      [] OTHER -> "-"

\* Variant of PriceRaises in which a price that does not convert is let through.
PriceRaisesNever(price) == FALSE

\* The price expression raises: the price is truthy and float() rejects it.
PriceRaises(price) == PyTruthy(price) /\ ~FloatOk(price)

\* The market cap expression raises: the value is truthy and the format
\* code ',.2f' does not apply to it.
CapRaises(cap) == PyTruthy(cap) /\ cap \notin {"1.5", "1234567.5"}

\* price_formatted
PriceFormatted(price) == IF PyTruthy(price) THEN Fmt8(FloatOf(price)) ELSE "N/A"

\* market_cap_formatted
CapFormatted(cap) == IF PyTruthy(cap) THEN FmtGrouped2(cap) ELSE "N/A"

\* Variant of DescSegment whose marker test is `>=`.
DescSegmentMarkerAtLimit(chars) ==
    SubSeq(chars, 1, IF Len(chars) < DescLimit THEN Len(chars) ELSE DescLimit)
        \o (IF Len(chars) >= DescLimit THEN Ellipsis ELSE <<>>)

\* {description[:200]}{'...' if len(description) > 200 else ''}
DescSegment(chars) ==
    SubSeq(chars, 1, IF Len(chars) < DescLimit THEN Len(chars) ELSE DescLimit)
        \o (IF Len(chars) > DescLimit THEN Ellipsis ELSE <<>>)

\* The string returned by the handler of format_token_message.
Fallback == [kind |-> "fallback", mint |-> "-", price |-> "-", cap |-> "-", desc |-> <<>>]

\* format_token_message: the normal message, or the fallback when the market
\* cap expression, the price expression or the slice of a description that is
\* not a string raises inside the try block.  The other fields are
\* interpolated as they are and cannot raise.
FormatTokenMessage(token) ==
    IF \/ CapRaises(CapGet(token))
       \/ PriceRaises(PriceGet(token))
       \/ DescGet(token).type # "str"
    THEN Fallback
    ELSE [kind |-> "token",
          mint |-> TokenGet(token, "N/A"),
          price |-> PriceFormatted(PriceGet(token)),
          cap |-> CapFormatted(CapGet(token)),
          desc |-> DescSegment(DescGet(token).chars)]

\* Variant of FormatRaises without the method's try/except: the ValueError of
\* float(price) leaves it.
FormatRaisesOnBadPrice(token) == PyTruthy(PriceGet(token)) /\ ~FloatOk(PriceGet(token))

\* format_token_message: whether an exception leaves the method.
FormatRaises(token) == FALSE

\* Variant of SendRaises without the method's try/except: a transport error
\* leaves it.
SendRaisesOnTransportError(outcome) == outcome = "exception"

\* send_telegram_message: whether an exception leaves the method.
SendRaises(outcome) == FALSE

\* A batch is well formed when it is a list of dicts whose mint, if any, is a string.
WellFormed(v) ==
    /\ v.type = "list"
    /\ \A k \in 1..Len(v.items) : HasGet(v.items[k]) /\ MintHashable(v.items[k])

\* Positions inside monitor_new_tokens.
MonitorPcs ==
    {"startup", "fetch", "test", "loop", "format", "send", "pace", "sleep30", "sleep60"}

MonitorState == IF pc = "sleep60" THEN "Degraded" ELSE "Running"

CurToken == tokens.items[idx]

(***************************************************************************)
(* The run of main().                                                      *)
(***************************************************************************)

\* __aenter__: the HTTP client is constructed.
AEnter ==
    /\ pc = "init"
    /\ session' = "open"
    /\ acquires' = acquires + 1
    /\ pc' = "startup"
    /\ UNCHANGED <<seen_tokens, tokens, idx, message, iterEnd, exitKind, releases, strayReq>>
    /\ UNCHANGED histVars

\* __aenter__ raises: the with body and __aexit__ never run.
AEnterFail ==
    /\ pc = "init"
    /\ pc' = "done"
    /\ exitKind' = "crashed"
    /\ UNCHANGED <<session, seen_tokens, tokens, idx, message, iterEnd, acquires, releases, strayReq>>
    /\ UNCHANGED histVars

\* The startup notification, outside the loop's try.
StartupNotify ==
    /\ pc = "startup"
    /\ \E o \in SendOutcomes :
        /\ startups' = startups + 1
        /\ strayReq' = (strayReq \/ session # "open")
        /\ IF SendRaises(o)
           THEN pc' = "exiting" /\ exitKind' = "crashed"
           ELSE pc' = "fetch" /\ UNCHANGED exitKind
    /\ UNCHANGED <<session, seen_tokens, tokens, idx, message, iterEnd, acquires, releases>>
    /\ UNCHANGED <<examined, fetched, passes, attempts, iterSent, seenAtStart, sameAsPrev, repeat, lastSend, lastFetch>>

\* tokens = await self.get_new_tokens(), the feed answering resp.
FetchWith(resp) ==
    LET r == GetNewTokens(resp) IN
    /\ pc = "fetch"
    /\ repeat' = NoBatch
    /\ lastFetch' = resp.outcome
    /\ fetched' = resp
    /\ strayReq' = (strayReq \/ session # "open")
    /\ iterSent' = <<>>
    /\ seenAtStart' = seen_tokens
    /\ idx' = 1
    /\ IF r.raised
       THEN /\ pc' = OnIterationError
            /\ iterEnd' = "failed"
            /\ UNCHANGED <<tokens, sameAsPrev>>
       ELSE /\ pc' = "test"
            /\ iterEnd' = "running"
            /\ tokens' = r.value
            /\ sameAsPrev' = (repeat # NoBatch /\ r.value = repeat)
    /\ UNCHANGED <<session, seen_tokens, message, exitKind, acquires, releases>>
    /\ UNCHANGED <<examined, passes, attempts, lastSend, startups>>

\* The fetch, the feed free to answer anything.
Fetch ==
    /\ pc = "fetch"
    /\ repeat = NoBatch
    /\ \E resp \in Responses : FetchWith(resp)

\* The fetch, the feed answering with the batch of the previous iteration.
FetchRepeat ==
    /\ pc = "fetch"
    /\ repeat # NoBatch
    /\ \E resp \in {[outcome |-> "200", body |-> Body(repeat, FALSE, JNull)],
                     [outcome |-> "200", body |-> Body(JObj(1), TRUE, repeat)]} :
            FetchWith(resp)

\* Variant of TestEmpty that treats an empty result as an error of the iteration.
TestEmptyBackoff ==
    /\ pc = "test"
    /\ ~Truthy(tokens)
    /\ pc' = "sleep60"
    /\ iterEnd' = "failed"
    /\ UNCHANGED <<session, seen_tokens, tokens, idx, message, exitKind, acquires, releases, strayReq>>
    /\ fetched' = NoResponse
    /\ UNCHANGED <<examined, passes, attempts, iterSent, seenAtStart, sameAsPrev, repeat, lastSend, lastFetch, startups>>

\* `if tokens:` is false: the warning, then the steady pause.
TestEmpty ==
    /\ pc = "test"
    /\ ~Truthy(tokens)
    /\ pc' = "sleep30"
    /\ iterEnd' = "completed"
    /\ UNCHANGED <<session, seen_tokens, tokens, idx, message, exitKind, acquires, releases, strayReq>>
    /\ fetched' = NoResponse
    /\ UNCHANGED <<examined, passes, attempts, iterSent, seenAtStart, sameAsPrev, repeat, lastSend, lastFetch, startups>>

\* `if tokens:` is true and the for loop starts.
TestIterate ==
    /\ pc = "test"
    /\ Truthy(tokens)
    /\ Iterable(tokens)
    /\ pc' = "loop"
    /\ UNCHANGED <<session, seen_tokens, tokens, idx, message, iterEnd, exitKind, acquires, releases, strayReq>>
    /\ fetched' = NoResponse
    /\ UNCHANGED <<examined, passes, attempts, iterSent, seenAtStart, sameAsPrev, repeat, lastSend, lastFetch, startups>>

\* `for token in tokens` raises TypeError: caught by the loop's handler.
TestRaise ==
    /\ pc = "test"
    /\ Truthy(tokens)
    /\ ~Iterable(tokens)
    /\ pc' = OnIterationError
    /\ iterEnd' = "failed"
    /\ UNCHANGED <<session, seen_tokens, tokens, idx, message, exitKind, acquires, releases, strayReq>>
    /\ fetched' = NoResponse
    /\ UNCHANGED <<examined, passes, attempts, iterSent, seenAtStart, sameAsPrev, repeat, lastSend, lastFetch, startups>>

\* The for loop is exhausted: the summary line, then the steady pause.
LoopDone ==
    /\ pc = "loop"
    /\ idx > Len(tokens.items)
    /\ pc' = "sleep30"
    /\ iterEnd' = "completed"
    /\ UNCHANGED <<session, seen_tokens, tokens, idx, message, exitKind, acquires, releases, strayReq>>
    /\ UNCHANGED histVars

\* Variant of LoopRaise in which the for body guards each record: the record
\* that raises is dropped and the loop goes on with the next one.
LoopRaiseSkipsRecord ==
    /\ pc = "loop"
    /\ idx <= Len(tokens.items)
    /\ \/ ~HasGet(CurToken)
       \/ HasGet(CurToken) /\ MintTruthy(CurToken) /\ ~MintHashable(CurToken)
    /\ idx' = idx + 1
    /\ UNCHANGED <<pc, iterEnd, session, seen_tokens, tokens, message, exitKind, acquires, releases, strayReq>>
    /\ UNCHANGED histVars

\* token.get or the membership test raises: caught by the loop's handler.
LoopRaise ==
    /\ pc = "loop"
    /\ idx <= Len(tokens.items)
    /\ \/ ~HasGet(CurToken)
       \/ HasGet(CurToken) /\ MintTruthy(CurToken) /\ ~MintHashable(CurToken)
    /\ pc' = OnIterationError
    /\ iterEnd' = "failed"
    /\ UNCHANGED <<session, seen_tokens, tokens, idx, message, exitKind, acquires, releases, strayReq>>
    /\ UNCHANGED histVars

\* The dedup test passes: the identifier is added to seen_tokens.
LoopNew ==
    /\ pc = "loop"
    /\ idx <= Len(tokens.items)
    /\ HasGet(CurToken)
    /\ MintHashable(CurToken)
    /\ IsNew(TokenGet(CurToken, ""), seen_tokens)
    /\ seen_tokens' = SeenAdd(seen_tokens, TokenGet(CurToken, ""))
    /\ passes' = [passes EXCEPT ![TokenGet(CurToken, "")] = @ + 1]
    /\ examined' = examined \cup ({TokenGet(CurToken, "")} \ {""})
    /\ pc' = "format"
    /\ UNCHANGED <<session, tokens, idx, message, iterEnd, exitKind, acquires, releases, strayReq>>
    /\ UNCHANGED <<fetched, attempts, iterSent, seenAtStart, sameAsPrev, repeat, lastSend, lastFetch, startups>>

\* The dedup test fails: the loop moves to the next token.
LoopSkip ==
    /\ pc = "loop"
    /\ idx <= Len(tokens.items)
    /\ HasGet(CurToken)
    /\ MintHashable(CurToken)
    /\ ~IsNew(TokenGet(CurToken, ""), seen_tokens)
    /\ idx' = idx + 1
    /\ examined' = examined \cup ({TokenGet(CurToken, "")} \ {""})
    /\ UNCHANGED <<pc, session, seen_tokens, tokens, message, iterEnd, exitKind, acquires, releases, strayReq>>
    /\ UNCHANGED <<fetched, passes, attempts, iterSent, seenAtStart, sameAsPrev, repeat, lastSend, lastFetch, startups>>

\* message = self.format_token_message(token)
Format ==
    /\ pc = "format"
    /\ IF FormatRaises(CurToken)
       THEN pc' = OnIterationError /\ iterEnd' = "failed" /\ UNCHANGED message
       ELSE pc' = "send" /\ message' = FormatTokenMessage(CurToken) /\ UNCHANGED iterEnd
    /\ UNCHANGED <<session, seen_tokens, tokens, idx, exitKind, acquires, releases, strayReq>>
    /\ UNCHANGED histVars

\* Variant of Send that goes on to the next token without the pacing pause.
SendNoPause ==
    /\ pc = "send"
    /\ \E o \in SendOutcomes :
        /\ lastSend' = "none"
        /\ attempts' = [attempts EXCEPT ![TokenGet(CurToken, "")] = @ + 1]
        /\ iterSent' = Append(iterSent, TokenGet(CurToken, ""))
        /\ strayReq' = (strayReq \/ session # "open")
    /\ pc' = "loop"
    /\ idx' = idx + 1
    /\ message' = NoMessage
    /\ UNCHANGED <<session, seen_tokens, tokens, iterEnd, exitKind, acquires, releases>>
    /\ UNCHANGED <<examined, fetched, passes, seenAtStart, sameAsPrev, repeat, lastFetch, startups>>

\* await self.send_telegram_message(message)
Send ==
    /\ pc = "send"
    /\ \E o \in SendOutcomes :
        /\ lastSend' = o
        /\ attempts' = [attempts EXCEPT ![TokenGet(CurToken, "")] = @ + 1]
        /\ iterSent' = Append(iterSent, TokenGet(CurToken, ""))
        /\ strayReq' = (strayReq \/ session # "open")
        /\ IF SendRaises(o)
           THEN pc' = OnIterationError /\ iterEnd' = "failed"
           ELSE pc' = "pace" /\ UNCHANGED iterEnd
    /\ message' = NoMessage
    /\ UNCHANGED <<session, seen_tokens, tokens, idx, exitKind, acquires, releases>>
    /\ UNCHANGED <<examined, fetched, passes, seenAtStart, sameAsPrev, repeat, lastFetch, startups>>

\* await asyncio.sleep(2), then the next token.
Pace ==
    /\ pc = "pace"
    /\ idx' = idx + 1
    /\ pc' = "loop"
    /\ lastSend' = "none"
    /\ UNCHANGED <<session, seen_tokens, tokens, message, iterEnd, exitKind, acquires, releases, strayReq>>
    /\ UNCHANGED <<examined, fetched, passes, attempts, iterSent, seenAtStart, sameAsPrev, repeat, lastFetch, startups>>

\* await asyncio.sleep(30), then the top of the loop.
Sleep30 ==
    /\ pc = "sleep30"
    /\ pc' = "fetch"
    /\ tokens' = JList(<<>>)
    /\ idx' = 1
    /\ \/ repeat' = NoBatch
       \/ WellFormed(tokens) /\ repeat' = tokens
    /\ iterSent' = <<>>
    /\ seenAtStart' = seen_tokens
    /\ sameAsPrev' = FALSE
    /\ lastFetch' = "none"
    /\ UNCHANGED <<session, seen_tokens, message, iterEnd, exitKind, acquires, releases, strayReq>>
    /\ UNCHANGED <<examined, fetched, passes, attempts, lastSend, startups>>

\* await asyncio.sleep(60) in the handler, then the top of the loop.
Sleep60 ==
    /\ pc = "sleep60"
    /\ pc' = "fetch"
    /\ tokens' = JList(<<>>)
    /\ idx' = 1
    /\ iterSent' = <<>>
    /\ seenAtStart' = seen_tokens
    /\ sameAsPrev' = FALSE
    /\ lastFetch' = "none"
    /\ lastSend' = "none"
    /\ UNCHANGED <<session, seen_tokens, message, iterEnd, exitKind, acquires, releases, strayReq>>
    /\ UNCHANGED <<examined, fetched, passes, attempts, repeat, startups>>

\* KeyboardInterrupt, a cancellation or another BaseException leaves
\* monitor_new_tokens: `except Exception` does not catch it.
Interrupt ==
    /\ pc \in MonitorPcs
    /\ exitKind' = "interrupted"
    /\ pc' = "exiting"
    /\ UNCHANGED <<session, seen_tokens, tokens, idx, message, iterEnd, acquires, releases, strayReq>>
    /\ UNCHANGED histVars

\* Variant of AExit that leaves the client open.
AExitNoClose ==
    /\ pc = "exiting"
    /\ pc' = "done"
    /\ UNCHANGED <<session, releases, seen_tokens, tokens, idx, message, iterEnd, exitKind, acquires, strayReq>>
    /\ UNCHANGED histVars

\* __aexit__: the client is closed if it was constructed.
AExit ==
    /\ pc = "exiting"
    /\ IF session # "none"
       THEN session' = "closed" /\ releases' = releases + 1
       ELSE UNCHANGED <<session, releases>>
    /\ pc' = "done"
    /\ UNCHANGED <<seen_tokens, tokens, idx, message, iterEnd, exitKind, acquires, strayReq>>
    /\ UNCHANGED histVars

Monitor ==
    \/ StartupNotify
    \/ Fetch
    \/ FetchRepeat
    \/ TestEmpty
    \/ TestIterate
    \/ TestRaise
    \/ LoopDone
    \/ LoopRaise
    \/ LoopNew
    \/ LoopSkip
    \/ Format
    \/ Send
    \/ Pace
    \/ Sleep30
    \/ Sleep60

Next ==
    \/ AEnter
    \/ AEnterFail
    \/ Monitor
    \/ Interrupt
    \/ AExit

Spec == Init /\ [][Next]_vars

\* The run with no external interrupt, every request and pause returning.
NextNoInterrupt ==
    \/ AEnter
    \/ AEnterFail
    \/ Monitor

\* Every request and every pause returns: a pending step of the monitor is
\* eventually taken.
SpecNoInterrupt == Init /\ [][NextNoInterrupt]_vars /\ WF_vars(Monitor)

(***************************************************************************)
(* The formatter on its own: the loop stands at line 158 with a record     *)
(* drawn from every combination of price, market cap and description.      *)
(***************************************************************************)

\* Values of 'price_usd'.
PriceValues == {"absent", "null", "0", "1.5", "str:", "abc", "str:0", "str:1.5", "list:1"}

\* Values of 'usd_market_cap'.
CapValues == {"absent", "null", "0", "1234567.5", "abc"}

\* Lengths of the descriptions, on both sides of the limit.
DescLens == {0, 1, 150, 199, 200, 201, 250}

\* Values of 'description'.
DescValues == {DAbsent, DNull} \cup {DStr(n) : n \in DescLens}

FormatInputs == {Rec("A", p, c, d) : p \in PriceValues, c \in CapValues, d \in DescValues}

\* The first iteration has fetched a batch of one new record, added its
\* identifier to seen_tokens and is about to format it.
InitFormat ==
    /\ pc = "format"
    /\ session = "open"
    /\ seen_tokens = {"A"}
    /\ \E rec \in FormatInputs : tokens = JList(<<rec>>)
    /\ idx = 1
    /\ message = NoMessage
    /\ iterEnd = "running"
    /\ exitKind = "running"
    /\ examined = {"A"}
    /\ fetched = NoResponse
    /\ passes = [i \in Ids |-> IF i = "A" THEN 1 ELSE 0]
    /\ attempts = [i \in Ids |-> 0]
    /\ iterSent = <<>>
    /\ seenAtStart = {}
    /\ sameAsPrev = FALSE
    /\ repeat = NoBatch
    /\ lastSend = "none"
    /\ lastFetch = "200"
    /\ startups = 1
    /\ acquires = 1
    /\ releases = 0
    /\ strayReq = FALSE

\* The call of the formatter, then the dispatch of what it returned and the
\* pacing pause.
NextFormat ==
    \/ Format
    \/ Send
    \/ Pace

SpecFormat == InitFormat /\ [][NextFormat]_vars

(***************************************************************************)
(* Properties.                                                             *)
(***************************************************************************)

\* The identifier of a dict token, as the loop reads it.
MintOf(token) == TokenGet(token, "")

\* C1: every identifier the dedup check has examined, however often and in
\* whatever iterations, has passed it as new exactly once, and at most one
\* notification is ever attempted for an identifier.
C1_DedupOnce ==
    \A i \in Ids :
        /\ passes[i] <= 1
        /\ attempts[i] <= passes[i]
        /\ (i \in examined => passes[i] = 1)
        /\ (passes[i] = 1 <=> i \in seen_tokens)

\* C1 witness: A stands twice in one batch and both occurrences were examined.
C1_Witness ==
    /\ pc = "loop"
    /\ idx = 3
    /\ tokens.type = "list"
    /\ Len(tokens.items) = 3
    /\ HasGet(tokens.items[1]) /\ MintOf(tokens.items[1]) = "A"
    /\ HasGet(tokens.items[2]) /\ MintOf(tokens.items[2]) = "A"
    /\ passes["A"] = 1
    /\ attempts["A"] = 1

\* Position of the first token of the batch that carries identifier m.
FirstIndex(items, m) ==
    CHOOSE k \in 1..Len(items) :
        /\ MintOf(items[k]) = m
        /\ \A j \in 1..(k - 1) : MintOf(items[j]) # m

BatchIds(items) == {MintOf(items[k]) : k \in 1..Len(items)} \ {""}

\* C2: when the iteration over a well-formed batch completes, the notifications
\* of that iteration are one per distinct non-empty identifier that was not in
\* seen_tokens when the iteration began, in the order of first occurrence; an
\* iteration over the same batch as the previous completed one sends none.
C2_BatchNotifications ==
    (pc = "sleep30" /\ WellFormed(tokens)) =>
        /\ {iterSent[k] : k \in 1..Len(iterSent)} = BatchIds(tokens.items) \ seenAtStart
        /\ Len(iterSent) = Cardinality(BatchIds(tokens.items) \ seenAtStart)
        /\ \A j, k \in 1..Len(iterSent) :
              j < k => FirstIndex(tokens.items, iterSent[j]) < FirstIndex(tokens.items, iterSent[k])
        /\ (sameAsPrev => iterSent = <<>>)

\* C2 witness: the batch A, B, A was processed from an empty seen set.
C2_Witness ==
    /\ pc = "sleep30"
    /\ WellFormed(tokens)
    /\ Len(tokens.items) = 3
    /\ MintOf(tokens.items[1]) = "A"
    /\ MintOf(tokens.items[2]) = "B"
    /\ MintOf(tokens.items[3]) = "A"
    /\ seenAtStart = {}
    /\ iterSent = <<"A", "B">>

\* The loop is about to examine a dict token whose identifier is empty or missing.
AtEmptyMint ==
    /\ pc = "loop"
    /\ idx <= Len(tokens.items)
    /\ HasGet(CurToken)
    /\ MintOf(CurToken) = ""

\* C3: the empty identifier is never in seen_tokens, and the step that examines
\* a token with an empty or missing identifier sends nothing, takes no pacing
\* pause and leaves seen_tokens unchanged: the loop moves to the next token.
C3_EmptyNeverNew ==
    /\ []("" \notin seen_tokens)
    /\ [][(AtEmptyMint /\ pc' # "exiting") =>
            /\ pc' = "loop"
            /\ idx' = idx + 1
            /\ seen_tokens' = seen_tokens
            /\ attempts' = attempts
            /\ iterSent' = iterSent
            /\ passes' = passes]_vars

\* C3 witness: a token with an empty mint and one without a mint were skipped.
C3_Witness ==
    /\ pc = "loop"
    /\ idx = 3
    /\ tokens.type = "list"
    /\ Len(tokens.items) = 3
    /\ tokens.items[1] = Tok("", "1.5")
    /\ tokens.items[2] = NoMintTok
    /\ iterSent = <<>>
    /\ seen_tokens = seenAtStart

\* Identifiers in seen_tokens for which no notification has been attempted.
Unnotified == {i \in seen_tokens : attempts[i] = 0}

\* C4 (as stated): in every reachable state every member of seen_tokens has had
\* a notification attempted for it.
C4_SeenImpliesAttempted == Unnotified = {}

\* C4 (amended): whenever the monitor is fetching, examining a token or
\* pausing, every member of seen_tokens has had a notification attempted; the
\* identifier is inserted before its message is formatted and sent, so from
\* the insertion to the send call exactly that identifier is unnotified, and
\* a run interrupted there ends with that one identifier unnotified.
C4_AttemptFollowsInsert ==
    /\ (pc \in {"fetch", "test", "loop", "pace", "sleep30", "sleep60"} => Unnotified = {})
    /\ (pc \in {"format", "send"} => Unnotified = {MintOf(CurToken)})
    /\ Cardinality(Unnotified) <= 1

\* C4 witness: B was inserted and its notification is not yet issued, while
\* A, inserted earlier, has had its attempt.
C4_Witness ==
    /\ pc = "send"
    /\ seen_tokens = {"A", "B"}
    /\ attempts["A"] = 1
    /\ attempts["B"] = 0

\* C5: no step of the run removes an identifier from seen_tokens.
C5_SeenMonotonic == [][seen_tokens \subseteq seen_tokens']_vars

\* C5 witness: seen_tokens grew over two iterations, the second of which
\* ended in the backoff pause.
C5_Witness ==
    /\ pc = "sleep60"
    /\ seen_tokens = {"A", "B"}
    /\ seenAtStart = {"A"}

FetchFailures == {"non200", "neterr", "timeout", "badjson"}

\* C6: after a failed feed request get_new_tokens has returned the empty list
\* without raising, and the iteration goes to the steady pause with
\* seen_tokens unchanged and nothing sent.
C6_FetchFailureIsEmpty ==
    lastFetch \in FetchFailures =>
        /\ tokens = JList(<<>>)
        /\ pc \in {"test", "sleep30", "exiting", "done"}
        /\ (pc = "sleep30" => iterEnd = "completed")
        /\ seen_tokens = seenAtStart
        /\ iterSent = <<>>

\* C6 witness: a feed answer that is not valid JSON, seen by a monitor that
\* already tracks an identifier, has led to the steady pause.
C6_Witness ==
    /\ pc = "sleep30"
    /\ lastFetch = "badjson"
    /\ seen_tokens = {"A"}

\* The list the feed client is to return for an HTTP 200 body.
ListOfBody(b) ==
    IF b.val.type = "list" THEN b.val
    ELSE IF b.val.type = "object" /\ b.hasCoins /\ b.coins.type = "list" THEN b.coins
    ELSE JList(<<>>)

\* C7: for an HTTP 200 body get_new_tokens returns the body when it is a list,
\* the value under 'coins' when the body is an object holding a list there,
\* and the empty list for every other body.
C7_ReturnsList ==
    (pc = "test" /\ fetched.outcome = "200") => tokens = ListOfBody(fetched.body)

SendFailures == {"non200", "exception"}

\* C8: a failed notification raises nothing and is dropped: the send step goes
\* on to the pacing pause with the identifier still in seen_tokens and not to
\* the backoff pause, the pause is followed by the next item of the batch, and
\* no identifier is ever notified a second time.
C8_FailedSendDropped ==
    /\ [](\A i \in Ids : attempts[i] <= 1)
    /\ [][(pc = "send" /\ lastSend' \in SendFailures) =>
            /\ pc' = "pace"
            /\ MonitorState' = "Running"
            /\ iterEnd' = iterEnd
            /\ seen_tokens' = seen_tokens
            /\ MintOf(CurToken) \in seen_tokens']_vars
    /\ [][(pc = "pace" /\ lastSend \in SendFailures /\ pc' # "exiting") =>
            /\ pc' = "loop"
            /\ idx' = idx + 1
            /\ tokens' = tokens
            /\ attempts' = attempts
            /\ seen_tokens' = seen_tokens]_vars

\* C8 witness: the notification of A failed with a transport error and the
\* monitor is at the pacing pause with another token of the batch to come.
C8_Witness ==
    /\ pc = "pace"
    /\ lastSend = "exception"
    /\ idx < Len(tokens.items)
    /\ MintOf(CurToken) = "A"
    /\ seen_tokens = {"A"}
    /\ attempts["A"] = 1

\* C9: without an interrupt the monitor, once started, never leaves the loop
\* and issues a fetch again and again: it is infinitely often about to fetch
\* and infinitely often just past a fetch, whatever the iterations did
\* (a backoff pause included).
C9_LoopNeverEnds ==
    /\ [](acquires = 1 => pc \in MonitorPcs)
    /\ []<>(acquires = 1 => pc = "fetch")
    /\ []<>(acquires = 1 => pc = "test")

\* C9 witness: an iteration failed, the backoff pause was taken and the
\* monitor is back at the fetch.
C9_Witness ==
    /\ pc = "fetch"
    /\ iterEnd = "failed"
    /\ seen_tokens = {"A"}

\* C10: the HTTP client is constructed at most once and exactly once before
\* the monitor runs, it is open whenever a request is issued, and once the
\* run is over it has been closed exactly once if it was constructed; it is
\* closed in no other state, so no request follows the release.
C10_ClientScoped ==
    /\ acquires <= 1
    /\ releases <= acquires
    /\ ~strayReq
    /\ (pc \in MonitorPcs => acquires = 1 /\ releases = 0 /\ session = "open")
    /\ (pc = "exiting" => acquires = 1 /\ releases = 0 /\ session = "open")
    /\ (pc = "done" => releases = acquires /\ session = (IF acquires = 1 THEN "closed" ELSE "none"))
    /\ (session = "closed" => pc = "done")

\* C10 witness: an interrupt stopped the loop after A was notified and the
\* client was released.
C10_Witness ==
    /\ pc = "done"
    /\ exitKind = "interrupted"
    /\ releases = 1
    /\ session = "closed"
    /\ seen_tokens = {"A"}
    /\ attempts["A"] = 1

\* C11: when the formatting of a token fails, format_token_message returns
\* the fallback error message instead of raising, and the loop sends that
\* fallback like any message: the step after the formatter is the send with
\* the fallback as its body, and the send makes the one and only notification
\* attempt for the identifier, leaves the identifier in seen_tokens and lets
\* the iteration go on to the pacing pause, not to the backoff.
C11_FallbackStillSent ==
    [][/\ (pc = "format" /\ FormatTokenMessage(CurToken).kind = "fallback"
              /\ pc' \in MonitorPcs)
            => (pc' = "send" /\ message'.kind = "fallback" /\ iterEnd' = "running")
       /\ (pc = "send" /\ message.kind = "fallback" /\ pc' \in MonitorPcs)
            => /\ pc' = "pace"
               /\ attempts[MintOf(CurToken)] = 0
               /\ attempts'[MintOf(CurToken)] = 1
               /\ MintOf(CurToken) \in seen_tokens'
               /\ iterEnd' = "running"
               /\ MonitorState' = "Running"]_vars

\* The fallback of a token whose price does not convert has been sent and the
\* loop is at the pacing pause.
C11_Witness ==
    /\ pc = "pace"
    /\ FormatTokenMessage(CurToken).kind = "fallback"
    /\ attempts[MintOf(CurToken)] = 1
    /\ MintOf(CurToken) \in seen_tokens
    /\ iterEnd = "running"

\* The description the formatter reads from the token being formatted.
DescOfCur == DescGet(CurToken).chars

\* C12: for every description d of a token whose message is formatted, the
\* description segment of the message is d unchanged, with no marker, when
\* len(d) <= 200, and the first 200 characters of d followed by the marker
\* '...' and nothing else when len(d) > 200.
C12_DescriptionSegment ==
    (pc = "send" /\ message.kind = "token") =>
        /\ Len(DescOfCur) <= DescLimit => message.desc = DescOfCur
        /\ Len(DescOfCur) > DescLimit =>
            /\ Len(message.desc) = DescLimit + Len(Ellipsis)
            /\ \A i \in 1..DescLimit : message.desc[i] = DescOfCur[i]
            /\ SubSeq(message.desc, DescLimit + 1, Len(message.desc)) = Ellipsis

\* A description of 250 characters has been cut to 200 and marked.
C12_Witness ==
    /\ pc = "send"
    /\ message.kind = "token"
    /\ Len(DescOfCur) = 250
    /\ Len(message.desc) = 203
    /\ message.desc[200] = 200
    /\ message.desc[201] = 0

\* C13: exactly one startup notification is attempted, after the HTTP client
\* has been constructed and before the first fetch; whatever its outcome the
\* monitor goes on to the first fetch (Running); and the startup notification
\* is never attempted again, not after a backoff pause either.
C13_StartupOnce ==
    /\ [](/\ startups <= 1
          /\ pc = "init" => startups = 0
          /\ pc = "startup" =>
                startups = 0 /\ session = "open" /\ acquires = 1 /\ iterEnd = "none"
          /\ pc \in MonitorPcs \ {"startup"} => startups = 1
          /\ iterEnd # "none" => startups = 1)
    /\ [][/\ (pc = "startup" /\ exitKind' # "interrupted")
                => (pc' = "fetch" /\ startups' = 1 /\ iterEnd' = "none"
                      /\ MonitorState' = "Running")
          /\ startups' # startups => pc = "startup"
          /\ pc' = "startup" => pc = "init"]_vars

\* The loop is back at the fetch after a backoff pause, the startup
\* notification still attempted once.
C13_Witness ==
    /\ pc = "fetch"
    /\ iterEnd = "failed"
    /\ startups = 1

\* C14: within an iteration every notification attempt is followed by one
\* pacing pause, taken before the loop handles the next token, so that two
\* consecutive notifications have exactly one pause between them; a token
\* that is skipped (identifier seen or empty) causes no pause.  lastSend
\* holds the outcome of an attempt from the send until its pause is over.
C14_PacingPause ==
    /\ [](/\ pc \in {"loop", "format", "send"} => lastSend = "none"
          /\ pc = "pace" =>
                /\ lastSend # "none"
                /\ Len(iterSent) > 0
                /\ iterSent[Len(iterSent)] = MintOf(CurToken))
    /\ [][/\ (pc = "send" /\ exitKind' # "interrupted")
                => (pc' = "pace" /\ idx' = idx /\ Len(iterSent') = Len(iterSent) + 1)
          /\ (pc = "pace" /\ exitKind' # "interrupted")
                => (pc' = "loop" /\ idx' = idx + 1 /\ lastSend' = "none"
                      /\ iterSent' = iterSent)
          /\ (pc' = "pace" /\ pc # "pace") => pc = "send"
          /\ (pc = "loop" /\ idx' = idx + 1)
                => (pc' = "loop" /\ iterSent' = iterSent /\ lastSend' = "none")]_vars

\* The first token of the batch was notified and its pause taken, the second
\* was skipped without a pause, and the third has just been notified.
C14_Witness ==
    /\ pc = "pace"
    /\ idx = 3
    /\ Len(iterSent) = 2
    /\ iterSent[1] = MintOf(tokens.items[1])
    /\ MintOf(tokens.items[2]) \in {"", iterSent[1]}
    /\ iterSent[2] = MintOf(tokens.items[3])

\* The iteration body has run to its end: `if tokens:` was false, or the for
\* loop is exhausted.
BodyCompletes ==
    \/ pc = "test" /\ ~Truthy(tokens)
    \/ pc = "loop" /\ idx > Len(tokens.items)

\* A statement of the iteration body raises an Exception.
BodyRaises ==
    \/ pc = "test" /\ Truthy(tokens) /\ ~Iterable(tokens)
    \/ pc = "loop" /\ idx <= Len(tokens.items) /\ ~HasGet(CurToken)
    \/ pc = "loop" /\ idx <= Len(tokens.items) /\ HasGet(CurToken)
          /\ MintTruthy(CurToken) /\ ~MintHashable(CurToken)

\* C15: two consecutive fetches have exactly one inter-iteration pause
\* between them: every fetch but the first is entered from a pause, and a
\* pause is followed by the fetch.  The pause is the steady one (30 s) exactly
\* when the iteration body ran to its end, which includes a failed fetch and
\* an empty result, and the backoff (60 s) exactly when a statement of the
\* body raised; after a failed or empty fetch the monitor is never Degraded.
C15_OnePausePerIteration ==
    /\ [](/\ lastFetch \in FetchFailures => MonitorState = "Running"
          /\ pc = "sleep60" => (lastFetch = "200" /\ Truthy(tokens))
          /\ (pc \in {"test", "sleep30"} /\ lastFetch \in FetchFailures) => ~Truthy(tokens))
    /\ [][/\ (pc' = "fetch" /\ pc # "fetch") => pc \in {"startup", "sleep30", "sleep60"}
          /\ (pc \in {"sleep30", "sleep60"} /\ exitKind' # "interrupted") => pc' = "fetch"
          /\ (pc = "fetch" /\ exitKind' # "interrupted") => pc' = "test"
          /\ (pc' = "sleep30" /\ pc # "sleep30") => BodyCompletes
          /\ (pc' = "sleep60" /\ pc # "sleep60") => BodyRaises
          /\ (BodyCompletes /\ exitKind' # "interrupted") => pc' = "sleep30"
          /\ (BodyRaises /\ exitKind' # "interrupted") => pc' = "sleep60"]_vars

\* The fetch failed, the body found nothing to do and the monitor is at the
\* steady pause.
C15_Witness ==
    /\ pc = "sleep30"
    /\ lastFetch \in FetchFailures
    /\ iterEnd = "completed"

\* The market cap and the description of the token being formatted do not
\* make the formatter fail.
OtherFieldsFormat ==
    /\ ~CapRaises(CapGet(CurToken))
    /\ DescGet(CurToken).type = "str"

\* C16: a price that is non-empty (truthy) and does not convert to a number
\* makes format_token_message return the fallback, never a normal message
\* with a zero or 'N/A' price; a price that is the number zero or is absent
\* gives, the other fields being formattable, a normal message whose price
\* field is 'N/A'.
C16_PriceConversion ==
    pc = "send" =>
        /\ (PyTruthy(PriceGet(CurToken)) /\ ~FloatOk(PriceGet(CurToken)))
                => message = Fallback
        /\ (CurToken.price \in {"absent", "0"} /\ OtherFieldsFormat)
                => (message.kind = "token" /\ message.price = "N/A")
        /\ (message.kind = "token" /\ message.price = "N/A")
                => ~PyTruthy(PriceGet(CurToken))

\* The price 'abc' has produced the fallback although market cap and
\* description are formattable.
C16_Witness ==
    /\ pc = "send"
    /\ CurToken.price = "abc"
    /\ OtherFieldsFormat
    /\ message = Fallback

\* A record on which line 154 or line 155 raises.
Offending(token) ==
    \/ ~HasGet(token)
    \/ MintTruthy(token) /\ ~MintHashable(token)

\* Identifiers the loop can read at positions from..to of the current batch.
IdsAt(from, to) ==
    {MintOf(tokens.items[j]) :
        j \in {k \in from..to : /\ ~Offending(tokens.items[k])
                                /\ MintOf(tokens.items[k]) # ""}}

\* Identifiers met only after position idx: not seen when the iteration
\* began and at no position before idx.
LaterIds == IdsAt(idx + 1, Len(tokens.items)) \ (seenAtStart \cup IdsAt(1, idx - 1))

\* C17: when a record of the batch makes the iteration body raise, the rest
\* of the batch is abandoned.  At the backoff pause the identifiers that come
\* only after the offending record are not in seen_tokens and have never been
\* notified; the identifiers before it are in seen_tokens, each notified once,
\* and no identifier is ever notified twice, so the retry does not notify
\* them again; and in every iteration the loop only examines, formats and
\* notifies a record when no offending record precedes it in the batch, so
\* an identifier that the feed always returns behind an offending record is
\* never notified.
C17_BatchAbandoned ==
    /\ \A m \in Ids : attempts[m] <= 1
    /\ pc \in {"loop", "format", "send", "pace"} =>
            \A j \in 1..(idx - 1) : ~Offending(tokens.items[j])
    /\ (pc = "sleep60" /\ Iterable(tokens)) =>
            /\ idx <= Len(tokens.items)
            /\ Offending(CurToken)
            /\ \A j \in 1..(idx - 1) : ~Offending(tokens.items[j])
            /\ \A m \in IdsAt(1, idx - 1) : m \in seen_tokens /\ attempts[m] = 1
            /\ \A m \in LaterIds :
                    /\ m \notin seen_tokens
                    /\ attempts[m] = 0
                    /\ \A k \in 1..Len(iterSent) : iterSent[k] # m

\* The retry of a batch <<A, offending record, B>>: A was seen when the
\* iteration began and is not notified again, the second record has raised,
\* and B is still neither seen nor notified.
C17_Witness ==
    /\ pc = "sleep60"
    /\ Iterable(tokens)
    /\ Len(tokens.items) = 3
    /\ idx = 2
    /\ MintOf(tokens.items[1]) = "A"
    /\ Offending(tokens.items[2])
    /\ MintOf(tokens.items[3]) = "B"
    /\ ~Offending(tokens.items[3])
    /\ seenAtStart = {"A"}
    /\ iterSent = <<>>
    /\ attempts["A"] = 1
    /\ "B" \notin seen_tokens
    /\ attempts["B"] = 0

\* Notifications attempted for the identifiers of S.
RECURSIVE AttemptsIn(_)
AttemptsIn(S) ==
    IF S = {} THEN 0
    ELSE LET m == CHOOSE x \in S : TRUE IN attempts[m] + AttemptsIn(S \ {m})

\* C18: at every inter-iteration pause, steady or backoff, the number of
\* identifiers in seen_tokens equals the number of token notifications
\* attempted so far (the startup notification is not counted), each seen
\* identifier having exactly one attempt; and the identifiers added to
\* seen_tokens during the iteration are exactly those whose notification was
\* attempted during it.
C18_SeenCountEqualsAttempts ==
    pc \in {"sleep30", "sleep60"} =>
        /\ Cardinality(seen_tokens) = AttemptsIn(Ids)
        /\ \A m \in Ids : attempts[m] = (IF m \in seen_tokens THEN 1 ELSE 0)
        /\ seen_tokens \ seenAtStart = {iterSent[k] : k \in 1..Len(iterSent)}
        /\ Len(iterSent) = Cardinality(seen_tokens \ seenAtStart)

\* A backoff pause of an iteration that notified one identifier before a
\* record raised, another identifier notified in an earlier iteration.
C18_Witness ==
    /\ pc = "sleep60"
    /\ Cardinality(seen_tokens) = 2
    /\ AttemptsIn(Ids) = 2
    /\ Len(iterSent) = 1
    /\ Cardinality(seenAtStart) = 1

====
